---- MODULE Spec2Model ----
(***************************************************************************)
(* Model of poll_analysis_app.py: the memoized loader load_data, the two   *)
(* aggregators get_session_summary and get_question_totals, and one whole  *)
(* script run of main (sidebar filters, the four tabs).                     *)
(*                                                                         *)
(* A table (pandas DataFrame) is a sequence of row records.  Cells are     *)
(* never missing: the tables are the complete ones of the fixed schema     *)
(* (main sorts the Question, Name and City cells with sorted(), which      *)
(* raises on a missing cell next to text).                                 *)
(* Percentages are kept in tenths of a percent (333 stands for 33.3); for  *)
(* the subgroup totals of the model (below 16) no share lies on a rounding *)
(* tie, so exact and floating-point rounding agree.                        *)
(* State and Population Range are carried in the rows; the Analytics tab   *)
(* that reads them is recorded as a step only.                             *)
(***************************************************************************)
EXTENDS Integers, Sequences, FiniteSets

(***************************************************************************)
(* Bounds                                                                  *)
(***************************************************************************)
\* longest table handed to the aggregators in SpecAgg
MaxRows == 3
\* longest table pd.read_csv returns in Spec
MaxFileRows == 2

(***************************************************************************)
(* Values                                                                  *)
(***************************************************************************)
\* Python's None for the session_filter argument
None == "None"

\* the "All ..." entries main puts in front of each selectbox
AllSessions == "All Sessions"
AllQuestions == "All Questions"
AllRespondents == "All Respondents"
AllCities == "All Cities"

\* every string that occurs in a cell, in Python's str order
StrOrder ==
  << "A", "Austin, TX", "B", "C", "Feb 2024", "Ithaca, NY", "Jan 2024",
     "Jane Doe", "John Roe", "Mar 2024", "NY", "Over 500k", "Q1", "Q2", "TX",
     "Transit", "Under 50k", "Zoning" >>

\* position of a string in Python's str order
StrRank(s) == CHOOSE i \in 1..Len(StrOrder) : StrOrder[i] = s

\* one row of poll-responses.csv
Row(d, my, t, n, c, st, p, q, a) ==
  [WebinarDate |-> d, MonthYear |-> my, WebinarTitle |-> t, Name |-> n,
   CityState |-> c, State |-> st, PopulationRange |-> p, Question |-> q,
   Answer |-> a]

\* the rows tables are built from: three sessions (two share a date, two
\* share a month-year label), three respondents, two questions, three answers
RowPool ==
  { Row(20240115, "Jan 2024", "Zoning", "Jane Doe", "Ithaca, NY", "NY", "Under 50k", "Q1", "A"),
    Row(20240115, "Jan 2024", "Zoning", "John Roe", "Austin, TX", "TX", "Over 500k", "Q1", "B"),
    Row(20240115, "Jan 2024", "Zoning", "Jane Doe", "Austin, TX", "TX", "Over 500k", "Q1", "C"),
    Row(20240115, "Jan 2024", "Zoning", "Jane Doe", "Ithaca, NY", "NY", "Under 50k", "Q2", "A"),
    Row(20240212, "Feb 2024", "Transit", "Jane Doe", "Ithaca, NY", "NY", "Under 50k", "Q1", "A"),
    Row(20240212, "Feb 2024", "Transit", "John Roe", "Austin, TX", "TX", "Over 500k", "Q2", "B"),
    Row(20240212, "Jan 2024", "Transit", "Jane Doe", "Austin, TX", "TX", "Over 500k", "Q1", "A"),
    Row(20240212, "Jan 2024", "Transit", "John Roe", "Austin, TX", "TX", "Over 500k", "Q1", "B") }

\* the rows poll-responses.csv is built from
FilePool ==
  { Row(20240115, "Jan 2024", "Zoning", "Jane Doe", "Ithaca, NY", "NY", "Under 50k", "Q1", "A"),
    Row(20240115, "Jan 2024", "Zoning", "John Roe", "Austin, TX", "TX", "Over 500k", "Q1", "B"),
    Row(20240115, "Jan 2024", "Zoning", "Jane Doe", "Austin, TX", "TX", "Over 500k", "Q2", "A"),
    Row(20240212, "Feb 2024", "Transit", "John Roe", "Austin, TX", "TX", "Over 500k", "Q1", "B") }

\* all tables of at most n rows taken from pool
Tables(pool, n) == UNION { [1..k -> pool] : k \in 0..n }

\* the values get_question_totals is called with as session_filter
SessionArgs == {None, "Jan 2024", "Feb 2024", "Mar 2024"}

(***************************************************************************)
(* pandas helpers                                                          *)
(***************************************************************************)
Range(s) == { s[i] : i \in 1..Len(s) }

RECURSIVE SumSeq(_)
SumSeq(s) == IF s = << >> THEN 0 ELSE Head(s) + SumSeq(Tail(s))

\* Series.unique() / DataFrame.drop_duplicates(): first occurrences, in order
RECURSIVE Unique(_)
Unique(s) ==
  IF s = << >> THEN << >>
  ELSE LET init == Unique(SubSeq(s, 1, Len(s) - 1))
           x == s[Len(s)]
       IN IF x \in Range(init) THEN init ELSE Append(init, x)

\* lexicographic order on equally long tuples of integers
RECURSIVE LexLess(_, _)
LexLess(a, b) ==
  IF a = << >> THEN FALSE
  ELSE IF Head(a) # Head(b) THEN Head(a) < Head(b)
  ELSE LexLess(Tail(a), Tail(b))

\* a set of integer tuples as an ascending sequence
RECURSIVE SortTuples(_)
SortTuples(R) ==
  IF R = {} THEN << >>
  ELSE LET m == CHOOSE x \in R : \A y \in R \ {x} : LexLess(x, y)
       IN << m >> \o SortTuples(R \ {m})

\* x put into s, which is descending by WebinarDate, behind every row whose
\* date is not earlier
RECURSIVE InsertByDateDesc(_, _)
InsertByDateDesc(x, s) ==
  IF s = << >> THEN << x >>
  ELSE IF x.WebinarDate > Head(s).WebinarDate THEN << x >> \o s
  ELSE << Head(s) >> \o InsertByDateDesc(x, Tail(s))

\* x put into s, which is ascending by WebinarDate, behind every row whose
\* date is not later
RECURSIVE InsertByDateAsc(_, _)
InsertByDateAsc(x, s) ==
  IF s = << >> THEN << x >>
  ELSE IF x.WebinarDate < Head(s).WebinarDate THEN << x >> \o s
  ELSE << Head(s) >> \o InsertByDateAsc(x, Tail(s))

\* sort_values("Webinar Date"): ascending, rows of equal date keep their order
RECURSIVE SortByDateAsc(_)
SortByDateAsc(s) ==
  IF s = << >> THEN << >>
  ELSE InsertByDateAsc(s[Len(s)], SortByDateAsc(SubSeq(s, 1, Len(s) - 1)))

\* sort_values("Webinar Date", ascending=False): descending, rows of equal
\* date keep their order
RECURSIVE SortByDateDesc(_)
SortByDateDesc(s) ==
  IF s = << >> THEN << >>
  ELSE InsertByDateDesc(s[Len(s)], SortByDateDesc(SubSeq(s, 1, Len(s) - 1)))

(***************************************************************************)
(* Aggregators                                                             *)
(***************************************************************************)
\* the groupby columns of get_session_summary
SessionKey(r) ==
  [WebinarDate |-> r.WebinarDate, MonthYear |-> r.MonthYear,
   WebinarTitle |-> r.WebinarTitle]

\* the groupby columns of get_question_totals
TotalsKey(r) ==
  [WebinarDate |-> r.WebinarDate, MonthYear |-> r.MonthYear,
   WebinarTitle |-> r.WebinarTitle, Question |-> r.Question,
   Answer |-> r.Answer]

SessionKeyRank(k) ==
  << k.WebinarDate, StrRank(k.MonthYear), StrRank(k.WebinarTitle) >>

TotalsKeyRank(k) ==
  << k.WebinarDate, StrRank(k.MonthYear), StrRank(k.WebinarTitle),
     StrRank(k.Question), StrRank(k.Answer) >>

\* groupby([3 columns]): the distinct session keys of df, ascending
SessionGroups(df) ==
  LET keys == { SessionKey(df[i]) : i \in 1..Len(df) }
      ranks == SortTuples({ SessionKeyRank(k) : k \in keys })
  IN [ i \in 1..Len(ranks) |-> CHOOSE k \in keys : SessionKeyRank(k) = ranks[i] ]

\* groupby([5 columns]): the distinct totals keys of df, ascending
TotalsGroups(df) ==
  LET keys == { TotalsKey(df[i]) : i \in 1..Len(df) }
      ranks == SortTuples({ TotalsKeyRank(k) : k \in keys })
  IN [ i \in 1..Len(ranks) |-> CHOOSE k \in keys : TotalsKeyRank(k) = ranks[i] ]

\* "nunique": number of distinct values of column col in the group g
AggNunique(g, col) == Cardinality({ g[i][col] : i \in 1..Len(g) })

\* "count" of column col mistaken for "nunique"
AggCountDistinct(g, col) == Cardinality({ g[i][col] : i \in 1..Len(g) })

\* "count": number of non-missing cells of column col in the group g; no cell
\* of a table is missing, so every row of the group counts
AggCount(g, col) == Len(g)

\* the summary before sorting: one row per session key
SessionAgg(df) ==
  LET groups == SessionGroups(df)
      Member(k) == LET In(r) == SessionKey(r) = k IN SelectSeq(df, In)
  IN [ i \in 1..Len(groups) |->
         [WebinarDate |-> groups[i].WebinarDate,
          MonthYear |-> groups[i].MonthYear,
          WebinarTitle |-> groups[i].WebinarTitle,
          UniqueRespondents |-> AggNunique(Member(groups[i]), "Name"),
          UniqueQuestions |-> AggNunique(Member(groups[i]), "Question"),
          TotalResponses |-> AggCount(Member(groups[i]), "Answer")] ]

\* sort_values left at its default, ascending
SummarySortDefault(summary) == SortByDateAsc(summary)

\* summary.sort_values("Webinar Date", ascending=False)
SummarySort(summary) == SortByDateDesc(summary)

get_session_summary(df) == SummarySort(SessionAgg(df))

\* Python truthiness of the session_filter argument
Truthy(x) == x # None /\ x # ""

\* the restriction that keeps the other sessions instead
SessionRestrictNegated(df, session_filter) ==
  IF Truthy(session_filter)
  THEN LET Keep(r) == r.MonthYear # session_filter IN SelectSeq(df, Keep)
  ELSE df

\* if session_filter: df = df[df["Month Year"] == session_filter]
SessionRestrict(df, session_filter) ==
  IF Truthy(session_filter)
  THEN LET Keep(r) == r.MonthYear = session_filter IN SelectSeq(df, Keep)
  ELSE df

\* the group size taken as the number of distinct respondents
GroupSizeRespondents(g) == Cardinality({ g[i].Name : i \in 1..Len(g) })

\* .size(): number of rows of the group g
GroupSize(g) == Len(g)

\* groupby([5 columns]).size().reset_index(name="Count")
TotalsAgg(df) ==
  LET groups == TotalsGroups(df)
      Member(k) == LET In(r) == TotalsKey(r) = k IN SelectSeq(df, In)
  IN [ i \in 1..Len(groups) |->
         [WebinarDate |-> groups[i].WebinarDate,
          MonthYear |-> groups[i].MonthYear,
          WebinarTitle |-> groups[i].WebinarTitle,
          Question |-> groups[i].Question,
          Answer |-> groups[i].Answer,
          Count |-> GroupSize(Member(groups[i]))] ]

get_question_totals(df, session_filter) ==
  SortByDateDesc(TotalsAgg(SessionRestrict(df, session_filter)))

(***************************************************************************)
(* Question Totals tab: percentages per (session, question) subgroup       *)
(***************************************************************************)
\* n / d rounded to the nearest integer, ties to the even one (numpy round)
RoundHalfEven(n, d) ==
  LET q == n \div d
      r == n % d
  IN IF 2 * r < d THEN q
     ELSE IF 2 * r > d THEN q + 1
     ELSE IF q % 2 = 0 THEN q ELSE q + 1

\* the share rounded to whole percents
PercentageWhole(count, total) == 10 * RoundHalfEven(100 * count, total)

\* (Count / total * 100).round(1), in tenths of a percent
Percentage(count, total) == RoundHalfEven(1000 * count, total)

RECURSIVE Concat(_)
Concat(ss) == IF ss = << >> THEN << >> ELSE Head(ss) \o Concat(Tail(ss))

\* question_data with its Percentage column, for one question of one session
QuestionData(session_data, question) ==
  LET In(r) == r.Question = question
      question_data == SelectSeq(session_data, In)
      total == SumSeq([ i \in 1..Len(question_data) |-> question_data[i].Count ])
  IN [ i \in 1..Len(question_data) |->
         [Answer |-> question_data[i].Answer,
          Count |-> question_data[i].Count,
          Percentage |-> Percentage(question_data[i].Count, total)] ]

\* the expanders of one session of the Question Totals tab
SessionExpanders(question_totals, session_row) ==
  LET In(r) == SessionKey(r) = session_row
      session_data == SelectSeq(question_totals, In)
      questions_in_session ==
        Unique([ i \in 1..Len(session_data) |-> session_data[i].Question ])
  IN [ i \in 1..Len(questions_in_session) |->
         [WebinarDate |-> session_row.WebinarDate,
          MonthYear |-> session_row.MonthYear,
          WebinarTitle |-> session_row.WebinarTitle,
          Question |-> questions_in_session[i],
          question_data |-> QuestionData(session_data, questions_in_session[i])] ]

\* every expander the tab renders, in rendering order
Expanders(question_totals) ==
  LET sessions_in_view ==
        Unique([ i \in 1..Len(question_totals) |-> SessionKey(question_totals[i]) ])
  IN Concat([ i \in 1..Len(sessions_in_view) |->
                SessionExpanders(question_totals, sessions_in_view[i]) ])

(***************************************************************************)
(* Sidebar and tab filters of main                                         *)
(***************************************************************************)
\* a set of cell strings as a list in Python's sorted() order
Sorted(S) ==
  LET ranks == SortTuples({ << StrRank(x) >> : x \in S })
  IN [ i \in 1..Len(ranks) |-> StrOrder[ranks[i][1]] ]

Column(df, col) == [ i \in 1..Len(df) |-> df[i][col] ]

\* sessions: the month-year labels of the distinct (date, label) pairs, by date
Sessions(df) ==
  LET session_dates ==
        SortByDateAsc(Unique([ i \in 1..Len(df) |->
          [WebinarDate |-> df[i].WebinarDate, MonthYear |-> df[i].MonthYear] ]))
  IN Column(session_dates, "MonthYear")

\* the session filter comparing with != instead of ==
SessionFilterNegated(df, selected_session) ==
  IF selected_session # AllSessions
  THEN LET Keep(r) == r.MonthYear # selected_session IN SelectSeq(df, Keep)
  ELSE df

\* lines 82-85
SessionFilter(df, selected_session) ==
  IF selected_session # AllSessions
  THEN LET Keep(r) == r.MonthYear = selected_session IN SelectSeq(df, Keep)
  ELSE df

\* questions: sorted(filtered_df["Question"].unique())
Questions(filtered_df) == Sorted(Range(Column(filtered_df, "Question")))

\* lines 96-97
QuestionFilter(filtered_df, selected_question) ==
  IF selected_question # AllQuestions
  THEN LET Keep(r) == r.Question = selected_question IN SelectSeq(filtered_df, Keep)
  ELSE filtered_df

Respondents(filtered_df) == Sorted(Range(Column(filtered_df, "Name")))

Cities(filtered_df) == Sorted(Range(Column(filtered_df, "CityState")))

\* the respondent filter left out
RespondentFilterSkipped(display_df, selected_respondent) == display_df

\* lines 217-218
RespondentFilter(display_df, selected_respondent) ==
  IF selected_respondent # AllRespondents
  THEN LET Keep(r) == r.Name = selected_respondent IN SelectSeq(display_df, Keep)
  ELSE display_df

\* lines 220-221
CityFilter(display_df, selected_city) ==
  IF selected_city # AllCities
  THEN LET Keep(r) == r.CityState = selected_city IN SelectSeq(display_df, Keep)
  ELSE display_df

(***************************************************************************)
(* State                                                                   *)
(***************************************************************************)
VARIABLES
  fileExists,          \* poll-responses.csv is present
  changedSinceRead,    \* the file was written or deleted after pd.read_csv read it
  cache,               \* st.cache_data's entry for load_data(): {} or {table}
  reads,               \* number of times pd.read_csv has read the file
  firstResult,         \* what the first load_data() call that returned returned
  status,              \* outcome of the last run of main: none, error, rendered
  cacheHit,            \* the last load_data() call was answered from the cache
  missingAtLoad,       \* the file was absent when the last run called load_data()
  df,
  session_filter,      \* the session_filter argument of get_question_totals
  selected_session,
  selected_question,
  selected_respondent,
  selected_city,
  filtered_df,
  display_df,
  session_summary,
  question_totals,
  expanders,           \* the per-question tables of the Question Totals tab
  steps                \* the steps that have run on df

vars ==
  << fileExists, changedSinceRead, cache, reads, firstResult, status, cacheHit,
     missingAtLoad, df, session_filter, selected_session, selected_question,
     selected_respondent, selected_city, filtered_df, display_df,
     session_summary, question_totals, expanders, steps >>

loaderVars == << fileExists, changedSinceRead, cache, reads, firstResult >>

runVars ==
  << status, cacheHit, missingAtLoad, selected_session, selected_question,
     selected_respondent, selected_city, filtered_df, display_df >>

\* nothing selected and nothing computed yet
Blank ==
  /\ selected_session = AllSessions
  /\ selected_question = AllQuestions
  /\ selected_respondent = AllRespondents
  /\ selected_city = AllCities
  /\ filtered_df = << >>
  /\ display_df = << >>
  /\ session_summary = << >>
  /\ question_totals = << >>
  /\ expanders = << >>
  /\ steps = {}

(***************************************************************************)
(* The app: the file, the loader, runs of main                             *)
(***************************************************************************)
Init ==
  /\ fileExists \in BOOLEAN
  /\ changedSinceRead = FALSE
  /\ cache = {}
  /\ reads = 0
  /\ firstResult = {}
  /\ status = "none"
  /\ cacheHit = FALSE
  /\ missingAtLoad = FALSE
  /\ df = << >>
  /\ session_filter = None
  /\ Blank

\* somebody writes poll-responses.csv (new or changed content)
WriteFile ==
  /\ fileExists' = TRUE
  /\ changedSinceRead' = TRUE
  /\ UNCHANGED << cache, reads, firstResult, status, cacheHit, missingAtLoad,
                  df, session_filter, selected_session, selected_question,
                  selected_respondent, selected_city, filtered_df, display_df,
                  session_summary, question_totals, expanders, steps >>

\* somebody removes poll-responses.csv
DeleteFile ==
  /\ fileExists
  /\ fileExists' = FALSE
  /\ changedSinceRead' = TRUE
  /\ UNCHANGED << cache, reads, firstResult, status, cacheHit, missingAtLoad,
                  df, session_filter, selected_session, selected_question,
                  selected_respondent, selected_city, filtered_df, display_df,
                  session_summary, question_totals, expanders, steps >>

\* load_data without the memo: every call reads the file
load_data_uncached(t) ==
  /\ fileExists
  /\ t \in Tables(FilePool, MaxFileRows)
  /\ reads' = reads + 1
  /\ changedSinceRead' = FALSE
  /\ cacheHit' = FALSE
  /\ firstResult' = IF firstResult = {} THEN {t} ELSE firstResult
  /\ UNCHANGED cache

\* load_data() returns t: from the cache if it holds a table, otherwise from
\* pd.read_csv, whose result is whatever the file holds at that moment
load_data(t) ==
  /\ IF cache # {}
     THEN /\ t \in cache
          /\ cacheHit' = TRUE
          /\ UNCHANGED << cache, reads, changedSinceRead >>
     ELSE /\ fileExists
          /\ t \in Tables(FilePool, MaxFileRows)
          /\ cache' = {t}
          /\ reads' = reads + 1
          /\ changedSinceRead' = FALSE
          /\ cacheHit' = FALSE
  /\ firstResult' = IF firstResult = {} THEN {t} ELSE firstResult

\* load_data() raises FileNotFoundError: nothing cached and no file
load_data_raises == cache = {} /\ ~fileExists

\* the except branch falling through with an empty table
main_except_default ==
  /\ load_data_raises
  /\ status' = "rendered"
  /\ cacheHit' = FALSE
  /\ missingAtLoad' = TRUE
  /\ df' = << >>
  /\ session_filter' = None
  /\ selected_session' = AllSessions
  /\ selected_question' = AllQuestions
  /\ selected_respondent' = AllRespondents
  /\ selected_city' = AllCities
  /\ filtered_df' = << >>
  /\ display_df' = << >>
  /\ session_summary' = << >>
  /\ question_totals' = << >>
  /\ expanders' = << >>
  /\ steps' = {"filters", "get_session_summary", "get_question_totals",
               "percentages", "tab3", "tab4"}
  /\ UNCHANGED loaderVars

\* a run of main in which load_data raises: st.error, return
main_except ==
  /\ load_data_raises
  /\ status' = "error"
  /\ cacheHit' = FALSE
  /\ missingAtLoad' = TRUE
  /\ df' = << >>
  /\ session_filter' = None
  /\ selected_session' = AllSessions
  /\ selected_question' = AllQuestions
  /\ selected_respondent' = AllRespondents
  /\ selected_city' = AllCities
  /\ filtered_df' = << >>
  /\ display_df' = << >>
  /\ session_summary' = << >>
  /\ question_totals' = << >>
  /\ expanders' = << >>
  /\ steps' = {}
  /\ UNCHANGED loaderVars

\* the options of a selectbox: the sentinel and the listed values
Options(sentinel, values) == {sentinel} \cup Range(values)

\* ["All Questions"] + questions
QuestionOptions(filtered) == Options(AllQuestions, Questions(filtered))

\* the tables a load_data() call can return in the current state
Loadable == IF cache # {} THEN cache ELSE Tables(FilePool, MaxFileRows)

\* a run of main in which load_data returns: sidebar, then the four tabs
main_render ==
  \E t \in Loadable :
    /\ load_data(t)
    /\ UNCHANGED fileExists
    /\ missingAtLoad' = ~fileExists
    /\ status' = "rendered"
    /\ df' = t
    /\ steps' = {"filters", "get_session_summary", "get_question_totals",
                 "percentages", "tab3", "tab4"}
    \* Tab 1
    /\ session_summary' = get_session_summary(t)
    /\ \E ss \in Options(AllSessions, Sessions(t)) :
         /\ selected_session' = ss
         \* Tab 2
         /\ session_filter' = IF ss = AllSessions THEN None ELSE ss
         /\ question_totals' = get_question_totals(t, session_filter')
         /\ expanders' = Expanders(question_totals')
         /\ \E sq \in QuestionOptions(SessionFilter(t, ss)) :
              /\ selected_question' = sq
              /\ filtered_df' = QuestionFilter(SessionFilter(t, ss), sq)
              \* Tab 3
              /\ \E sr \in Options(AllRespondents, Respondents(filtered_df')) :
                   \E sc \in Options(AllCities, Cities(filtered_df')) :
                     /\ selected_respondent' = sr
                     /\ selected_city' = sc
                     /\ display_df' = CityFilter(RespondentFilter(filtered_df', sr), sc)

Next == WriteFile \/ DeleteFile \/ main_except \/ main_render

Spec == Init /\ [][Next]_vars

(***************************************************************************)
(* The aggregators applied to any table                                    *)
(***************************************************************************)
InitAgg ==
  /\ fileExists = TRUE
  /\ changedSinceRead = FALSE
  /\ cache = {}
  /\ reads = 0
  /\ firstResult = {}
  /\ status = "none"
  /\ cacheHit = FALSE
  /\ missingAtLoad = FALSE
  /\ df \in Tables(RowPool, MaxRows)
  /\ session_filter \in SessionArgs
  /\ Blank

CallSessionSummary ==
  /\ "get_session_summary" \notin steps
  /\ session_summary' = get_session_summary(df)
  /\ steps' = steps \cup {"get_session_summary"}
  /\ UNCHANGED << loaderVars, runVars, df, session_filter, question_totals,
                  expanders >>

CallQuestionTotals ==
  /\ "get_question_totals" \notin steps
  /\ question_totals' = get_question_totals(df, session_filter)
  /\ steps' = steps \cup {"get_question_totals"}
  /\ UNCHANGED << loaderVars, runVars, df, session_filter, session_summary,
                  expanders >>

RenderPercentages ==
  /\ "get_question_totals" \in steps
  /\ "percentages" \notin steps
  /\ expanders' = Expanders(question_totals)
  /\ steps' = steps \cup {"percentages"}
  /\ UNCHANGED << loaderVars, runVars, df, session_filter, session_summary,
                  question_totals >>

NextAgg == CallSessionSummary \/ CallQuestionTotals \/ RenderPercentages

SpecAgg == InitAgg /\ [][NextAgg]_vars

(***************************************************************************)
(* Properties                                                              *)
(***************************************************************************)
\* the row r meets every filter that is not at its "All ..." entry
MeetsSelections(r) ==
  /\ selected_session # AllSessions => r.MonthYear = selected_session
  /\ selected_question # AllQuestions => r.Question = selected_question
  /\ selected_respondent # AllRespondents => r.Name = selected_respondent
  /\ selected_city # AllCities => r.CityState = selected_city

NoSelection ==
  /\ selected_session = AllSessions
  /\ selected_question = AllQuestions
  /\ selected_respondent = AllRespondents
  /\ selected_city = AllCities

\* C1: after a run of main the table shown in the Individual Responses tab
\* holds only rows of the loaded table that meet every active one of the four
\* filters, and it is the loaded table itself when no filter is active.
C1_FilteredRows ==
  status = "rendered" =>
    /\ \A i \in 1..Len(display_df) :
         display_df[i] \in Range(df) /\ MeetsSelections(display_df[i])
    /\ NoSelection => display_df = df

\* a run with all four filters active that kept some rows and dropped others
C1_Witness ==
  /\ status = "rendered"
  /\ selected_session # AllSessions
  /\ selected_question # AllQuestions
  /\ selected_respondent # AllRespondents
  /\ selected_city # AllCities
  /\ Len(display_df) >= 1
  /\ Len(display_df) < Len(df)

C3_SessionRestriction ==
  "get_question_totals" \in steps =>
    /\ session_filter # None =>
         \A i \in 1..Len(question_totals) :
           question_totals[i].MonthYear = session_filter
    /\ session_filter = None =>
         \A i \in 1..Len(df) : \E j \in 1..Len(question_totals) :
           TotalsKey(question_totals[j]) = TotalsKey(df[i])

\* a session_filter that kept rows of one session and dropped rows of another
C3_Witness ==
  /\ "get_question_totals" \in steps
  /\ session_filter # None
  /\ question_totals # << >>
  /\ \E i \in 1..Len(df) : df[i].MonthYear # session_filter

\* the rows get_question_totals is to count: those of the session, or all
RowsUsed ==
  IF session_filter = None THEN df
  ELSE LET OfSession(r) == r.MonthYear = session_filter IN SelectSeq(df, OfSession)

C5_SummaryDateDescending ==
  "get_session_summary" \in steps =>
    \A i, j \in 1..Len(session_summary) :
      i < j => session_summary[i].WebinarDate >= session_summary[j].WebinarDate

\* a summary whose sessions have different dates
C5_Witness ==
  /\ "get_session_summary" \in steps
  /\ \E i, j \in 1..Len(session_summary) :
       session_summary[i].WebinarDate > session_summary[j].WebinarDate

\* the percentages of one expander added up, in tenths of a percent
PercentageSum(e) == SumSeq(Column(e.question_data, "Percentage"))

\* C6: in every (session, question) subgroup the rounded percentages add up
\* to 100.0 within 0.1 times the number of answers of the subgroup.
C6_PercentagesSum ==
  "percentages" \in steps =>
    \A k \in 1..Len(expanders) :
      /\ PercentageSum(expanders[k]) - 1000 <= Len(expanders[k].question_data)
      /\ 1000 - PercentageSum(expanders[k]) <= Len(expanders[k].question_data)

\* a subgroup whose rounded percentages do not add up to exactly 100.0
C6_Witness ==
  /\ "percentages" \in steps
  /\ \E k \in 1..Len(expanders) : PercentageSum(expanders[k]) # 1000

\* C7: the file is read at most once, and every run in which load_data
\* returns gets the table its first returning call returned.
C7_LoadedOnce ==
  /\ reads <= 1
  /\ status = "rendered" => firstResult = {df}

\* a run served from the cache after the file was written or deleted
C7_Witness ==
  /\ status = "rendered"
  /\ cacheHit
  /\ changedSinceRead
  /\ reads = 1

\* C8 as claimed: a run that finds the file missing reports the error and
\* runs no filter, aggregation, table, chart or export step.
C8_MissingFileHalts ==
  (status # "none" /\ missingAtLoad) => (status = "error" /\ steps = {})

\* C8 as amended: a run that finds the file missing while no table is cached
\* reports the error, gets no table and runs no further step.
C8_MissingFileUncachedHalts ==
  (status # "none" /\ missingAtLoad /\ ~cacheHit) =>
    /\ status = "error"
    /\ steps = {}
    /\ cache = {}
    /\ df = << >>
    /\ display_df = << >>

\* a run that found the file missing with nothing cached
C8_Witness ==
  /\ status = "error"
  /\ missingAtLoad
  /\ ~cacheHit

\* C9: every row of the question totals of the Question Totals tab has the
\* session and the question selected in the sidebar.
C9_TotalsFollowFilters ==
  status = "rendered" =>
    \A i \in 1..Len(question_totals) :
      /\ selected_session # AllSessions =>
           question_totals[i].MonthYear = selected_session
      /\ selected_question # AllQuestions =>
           question_totals[i].Question = selected_question

\* C10: when the selected session and question are among the options the run
\* offered, the session and question filters leave at least one row of a
\* loaded table that has at least one row.
C10_OfferedSelectionsKeepRows ==
  ( /\ status = "rendered"
    /\ selected_session \in Options(AllSessions, Sessions(df))
    /\ selected_question \in
         Options(AllQuestions, Questions(SessionFilter(df, selected_session)))
    /\ Len(df) >= 1 )
  => Len(filtered_df) >= 1

\* a run with a session and a question selected that dropped some rows
C10_Witness ==
  /\ status = "rendered"
  /\ selected_session # AllSessions
  /\ selected_question # AllQuestions
  /\ selected_session \in Options(AllSessions, Sessions(df))
  /\ selected_question \in
       Options(AllQuestions, Questions(SessionFilter(df, selected_session)))
  /\ Len(filtered_df) >= 1
  /\ Len(filtered_df) < Len(df)

====
